---- MODULE Spec2Model ----
(***************************************************************************)
(* The WASI filesystem state manager of lib/wasi/src/state.rs (WasiFs):    *)
(* the inode arena, the descriptor table, the rights check of flush and    *)
(* the symlink walk of filestat_inode.                                     *)
(*                                                                         *)
(* An arena reference (generational_arena::Index) is modelled by its slot  *)
(* number 0, 1, 2, ...: nothing in state.rs removes an inode, so every     *)
(* slot keeps generation 0 and slot i is the i-th inserted record.         *)
(* A String is the sequence of its UTF-8 bytes, so String::len is Len.     *)
(*                                                                         *)
(* Memory::view of lib/api/src/externals/memory.rs is modelled on a        *)
(* 64-bit host; a usize is held in limbs of 16 bits.                       *)
(***************************************************************************)
EXTENDS Integers, Sequences, FiniteSets, TLC

\* ------------------------------------------------------------------ bounds
\* Longest preopen list handed to WasiFs::new.
MaxPreopens == 2
\* Most inode records the caller inserts into the arena (Spec).
MaxInodes == 1
\* Most create_fd calls made by the caller after construction (Spec).
MaxFds == 2
\* Most inode records in the arena of the symlink-chain specification.
MaxLinkInodes == 103
\* Most create_fd calls made around the wrap of next_fd (SpecWrap).
MaxWrapFds == 6
\* How far below u32::MAX next_fd starts there, at most.
MaxWrapLead == 1
\* Most pages a memory grows above its minimum (SpecView).
MaxGrowPages == 16

\* --------------------------------------------------------------- constants
MAX_SYMLINKS == 100

\* default_rights of WasiFs::new, 0x1FFFFFFF.
default_rights == 536870911

\* crate::syscalls::types (the WASI ABI): bit 0 of the rights mask.
WASI_RIGHT_FD_DATASYNC == 1
\* crate::syscalls::types: bit 0 of the lookup flags.
WASI_LOOKUP_SYMLINK_FOLLOW == 1

WASI_EACCES == "EACCES"
WASI_EBADF == "EBADF"
WASI_EINVAL == "EINVAL"
WASI_ENOENT == "ENOENT"
WASI_EIO == "EIO"
WASI_EISDIR == "EISDIR"
WASI_EMLINK == "EMLINK"

WASI_FILETYPE_UNKNOWN == "UNKNOWN"
WASI_FILETYPE_DIRECTORY == "DIRECTORY"
WASI_FILETYPE_REGULAR_FILE == "REGULAR_FILE"
WASI_FILETYPE_SYMBOLIC_LINK == "SYMBOLIC_LINK"

WASI_PREOPENTYPE_DIR == "PREOPENTYPE_DIR"

\* ----------------------------------------------------------------- results
\* Result<T, E>: Ok(v), Err(e); a panic (expect, unwrap, unimplemented!,
\* an arena index that does not resolve) is the third outcome of a call.
Ok(v) == [tag |-> "Ok", val |-> v]
Err(e) == [tag |-> "Err", err |-> e]
Panic(why) == [tag |-> "Panic", why |-> why]

\* What one call yields: the instance afterwards, the value returned, the
\* I/O it performed on the host, and (filestat_inode) its hop counter.
Outcome(fs, res, io) == [fs |-> fs, res |-> res, io |-> io, counter |-> 0]

\* ------------------------------------------------------------------- bits
\* a & b on unsigned integers.
RECURSIVE BitAnd(_, _)
BitAnd(a, b) ==
    IF a = 0 \/ b = 0 THEN 0
    ELSE (a % 2) * (b % 2) + 2 * BitAnd(a \div 2, b \div 2)

\* ------------------------------------------------------------------- u32
\* A u32 is held as the 32-bit integer with the same bits: 0 .. 2^31 - 1 as
\* themselves, 2^31 .. 2^32 - 1 as -2^31 .. -1. u32::MAX, 0xFFFFFFFF, is -1.
U32_MAX == -1
I32_MAX == 2147483647

\* x + 1 on u32 where the build does not check overflow: u32::MAX + 1 = 0.
U32Succ(x) ==
    IF x = U32_MAX THEN 0
    ELSE IF x = I32_MAX THEN (0 - I32_MAX) - 1
    ELSE x + 1

\* The rights test of flush: `rights & right == 0`.
LacksRight_never(rights, right) == FALSE
LacksRight_inverted(rights, right) == BitAnd(rights, right) # 0
LacksRight(rights, right) == BitAnd(rights, right) = 0

\* ------------------------------------------------------------ the host side
\* Host paths a preopen list may name, as UTF-8 bytes.
PathSandbox == <<47, 115, 97, 110, 100, 98, 111, 120>>   \* "/sandbox"
PathData == <<47, 100>>                                   \* "/d"
PathFile == <<47, 102>>                                   \* "/f"
PathMissing == <<47, 120>>                                \* "/x"
PathNoMeta == <<47, 109>>                                 \* "/m"

HostPaths == {PathSandbox, PathData, PathFile, PathMissing, PathNoMeta}

\* What fs::File::open and File::metadata find at a host path.
HostKind(path) ==
    CASE path = PathSandbox -> "dir"
      [] path = PathData -> "dir"
      [] path = PathFile -> "file"
      [] path = PathNoMeta -> "nometa"
      [] OTHER -> "absent"

\* ------------------------------------------------------------- data model
\* enum Kind
KindFile == [tag |-> "File"]
KindDir == [tag |-> "Dir"]
KindSymlink(forwarded) == [tag |-> "Symlink", forwarded |-> forwarded]
KindBuffer == [tag |-> "Buffer"]

\* __wasi_filestat_t::default()
DefaultStat == [st_ino |-> 0, st_size |-> 0]

\* struct InodeVal
InodeVal(stat, is_preopened, name, kind) ==
    [stat |-> stat, is_preopened |-> is_preopened, name |-> name, kind |-> kind]

\* struct Fd
Fd(rights, rights_inheriting, flags, offset, inode) ==
    [rights |-> rights, rights_inheriting |-> rights_inheriting,
     flags |-> flags, offset |-> offset, inode |-> inode]

\* HashMap::new(), HashMap::insert, HashMap::get
EmptyMap == [k \in {} |-> 0]
MapInsert(m, k, v) == [x \in DOMAIN m \cup {k} |-> IF x = k THEN v ELSE m[x]]

\* Arena: the references issued so far, insert, and Index (arena[ref]).
ArenaRefs(arena) == 0 .. (Len(arena) - 1)
ArenaInsert_discards(arena, val) == arena
ArenaInsert(arena, val) == Append(arena, val)
ArenaGet(arena, ref) == arena[ref + 1]

\* The fields with next_fd starting at 0.
EmptyFs_nextFdZero ==
    [name_map |-> EmptyMap, inodes |-> <<>>, fd_map |-> EmptyMap,
     next_fd |-> 0, inode_counter |-> 1000]

\* The WasiFs fields set by WasiFs::new before the preopen loop.
EmptyFs ==
    [name_map |-> EmptyMap, inodes |-> <<>>, fd_map |-> EmptyMap,
     next_fd |-> 3, inode_counter |-> 1000]

\* ------------------------------------------------------------- operations
\* create_fd that leaves next_fd as it was.
create_fd_noAdvance(fs, rights, rights_inheriting, flags, inode) ==
    LET idx == fs.next_fd
    IN Outcome([fs EXCEPT !.fd_map =
                   MapInsert(fs.fd_map, idx,
                             Fd(rights, rights_inheriting, flags, 0, inode))],
               Ok(idx), {})

\* create_fd that closes the descriptors already open on the same inode.
create_fd_dropsAliases(fs, rights, rights_inheriting, flags, inode) ==
    LET idx == fs.next_fd
        kept == {k \in DOMAIN fs.fd_map : fs.fd_map[k].inode # inode}
        fs1 == [fs EXCEPT !.next_fd = idx + 1]
        fs2 == [fs1 EXCEPT !.fd_map =
                   MapInsert([k \in kept |-> fs.fd_map[k]], idx,
                             Fd(rights, rights_inheriting, flags, 0, inode))]
    IN Outcome(fs2, Ok(idx), {})

\* WasiFs::create_fd (`idx + 1` without the overflow check, as in a release
\* build; create_fd_build adds the check of a debug build).
create_fd(fs, rights, rights_inheriting, flags, inode) ==
    LET idx == fs.next_fd
        fs1 == [fs EXCEPT !.next_fd = U32Succ(idx)]
        fs2 == [fs1 EXCEPT !.fd_map =
                   MapInsert(fs1.fd_map, idx,
                             Fd(rights, rights_inheriting, flags, 0, inode))]
    IN Outcome(fs2, Ok(idx), {})

\* WasiFs::create_fd in a build with (debug) or without (release) overflow
\* checks: with them, `idx + 1` panics at u32::MAX before anything is stored.
create_fd_build(fs, rights, rights_inheriting, flags, inode, overflow_checks) ==
    IF overflow_checks /\ fs.next_fd = U32_MAX
      THEN Outcome(fs, Panic("attempt to add with overflow"), {})
      ELSE create_fd(fs, rights, rights_inheriting, flags, inode)

\* The InodeVal that WasiFs::new builds for a preopened directory.
PreopenInode_unmarked(file) == InodeVal(DefaultStat, FALSE, file, KindDir)
PreopenInode(file) == InodeVal(DefaultStat, TRUE, file, KindDir)

\* The preopen loop with the Kind::File arm that state.rs has commented out:
\* a path that is no directory is preopened as a file.
RECURSIVE NewLoop_acceptsFiles(_, _, _)
NewLoop_acceptsFiles(wasi_fs0, preopened, i) ==
    IF i > Len(preopened) THEN Outcome(wasi_fs0, Ok("WasiFs"), {})
    ELSE
      LET file == preopened[i]
          host == HostKind(file)
      IN IF host = "absent" THEN Outcome(EmptyFs, Panic("Could not find file"), {})
         ELSE IF host = "nometa" THEN Outcome(EmptyFs, Panic("unwrap"), {})
         ELSE
           LET inode_val == InodeVal(DefaultStat, TRUE, file,
                                     IF host = "dir" THEN KindDir ELSE KindFile)
               inode == Len(wasi_fs0.inodes)
               fs1 == [wasi_fs0 EXCEPT !.inodes = ArenaInsert(wasi_fs0.inodes, inode_val)]
               made == create_fd(fs1, default_rights, default_rights, 0, inode)
           IN NewLoop_acceptsFiles(made.fs, preopened, i + 1)

\* The preopen loop of WasiFs::new, from the i-th path on.
RECURSIVE NewLoop(_, _, _)
NewLoop(wasi_fs0, preopened, i) ==
    IF i > Len(preopened) THEN Outcome(wasi_fs0, Ok("WasiFs"), {})
    ELSE
      LET file == preopened[i]
          host == HostKind(file)
      IN IF host = "absent" THEN Outcome(EmptyFs, Panic("Could not find file"), {})
         ELSE IF host = "nometa" THEN Outcome(EmptyFs, Panic("unwrap"), {})
         ELSE IF host # "dir"
           THEN Outcome(EmptyFs, Err(<<"only pre-opened directories", file>>), {})
         ELSE
           LET inode_val == PreopenInode(file)
               inode == Len(wasi_fs0.inodes)
               fs1 == [wasi_fs0 EXCEPT !.inodes = ArenaInsert(wasi_fs0.inodes, inode_val)]
               made == create_fd(fs1, default_rights, default_rights, 0, inode)
           IN IF made.res.tag # "Ok"
                THEN Outcome(EmptyFs, Panic("Could not open fd"), {})
                ELSE NewLoop(made.fs, preopened, i + 1)

\* WasiFs::new
new(preopened_files, repo_ok) ==
    IF ~repo_ok THEN Outcome(EmptyFs, Err(<<"repo">>), {})
    ELSE NewLoop(EmptyFs, preopened_files, 1)

\* WasiFs::get_inode
get_inode(fs, path) ==
    IF path \in DOMAIN fs.name_map THEN Ok(fs.name_map[path]) ELSE Err("None")

\* The loop pass with the test `counter < MAX_SYMLINKS`.
LoopPass_strictBound(fs, l) ==
    IF l.done THEN l
    ELSE IF l.counter < MAX_SYMLINKS
      THEN IF l.forwarded \notin ArenaRefs(fs.inodes)
             THEN [l EXCEPT !.done = TRUE, !.res = Panic("index")]
             ELSE LET inode_val == ArenaGet(fs.inodes, l.forwarded)
                  IN IF inode_val.kind.tag = "Symlink"
                       THEN [l EXCEPT !.counter = l.counter + 1,
                                      !.forwarded = inode_val.kind.forwarded]
                       ELSE [l EXCEPT !.done = TRUE, !.res = Ok(inode_val.stat)]
      ELSE [l EXCEPT !.done = TRUE, !.res = Err(WASI_EMLINK)]

\* One pass of the while loop of filestat_inode on its locals (forwarded,
\* counter): the test `counter <= MAX_SYMLINKS` and the body, or the
\* Err(__WASI_EMLINK) after the loop. A pass on a finished loop changes nothing.
LoopPass(fs, l) ==
    IF l.done THEN l
    ELSE IF l.counter <= MAX_SYMLINKS
      THEN IF l.forwarded \notin ArenaRefs(fs.inodes)
             THEN [l EXCEPT !.done = TRUE, !.res = Panic("index")]
             ELSE LET inode_val == ArenaGet(fs.inodes, l.forwarded)
                  IN IF inode_val.kind.tag = "Symlink"
                       THEN [l EXCEPT !.counter = l.counter + 1,
                                      !.forwarded = inode_val.kind.forwarded]
                       ELSE [l EXCEPT !.done = TRUE, !.res = Ok(inode_val.stat)]
      ELSE [l EXCEPT !.done = TRUE, !.res = Err(WASI_EMLINK)]

\* n passes of the loop, one after the other (split in halves, which keeps
\* the evaluation shallow).
RECURSIVE LoopPasses(_, _, _)
LoopPasses(fs, l, n) ==
    IF n = 0 THEN l
    ELSE IF n = 1 THEN LoopPass(fs, l)
    ELSE LET half == LoopPasses(fs, l, n \div 2)
         IN IF half.done THEN half ELSE LoopPasses(fs, half, n - (n \div 2))

\* The loop of filestat_inode, entered with counter = 0. Every pass that
\* does not finish the loop adds one to counter, so MAX_SYMLINKS + 2 passes
\* finish it.
FollowLoop(fs, forwarded) ==
    LET l == LoopPasses(fs,
                        [forwarded |-> forwarded, counter |-> 0, done |-> FALSE,
                         res |-> [tag |-> "Running"]],
                        MAX_SYMLINKS + 2)
    IN [Outcome(fs, l.res, {}) EXCEPT !.counter = l.counter]

\* filestat_inode with the test of the follow flag inverted (`== 0`).
filestat_inode_flagInverted(fs, inode, flags) ==
    IF inode \notin ArenaRefs(fs.inodes) THEN Outcome(fs, Panic("index"), {})
    ELSE
      LET inode_val == ArenaGet(fs.inodes, inode)
      IN IF BitAnd(flags, WASI_LOOKUP_SYMLINK_FOLLOW) = 0 /\ inode_val.kind.tag = "Symlink"
           THEN FollowLoop(fs, inode_val.kind.forwarded)
           ELSE Outcome(fs, Ok(inode_val.stat), {})

\* filestat_inode that follows a symlink whatever the flags.
filestat_inode_alwaysFollow(fs, inode, flags) ==
    IF inode \notin ArenaRefs(fs.inodes) THEN Outcome(fs, Panic("index"), {})
    ELSE
      LET inode_val == ArenaGet(fs.inodes, inode)
      IN IF inode_val.kind.tag = "Symlink"
           THEN FollowLoop(fs, inode_val.kind.forwarded)
           ELSE Outcome(fs, Ok(inode_val.stat), {})

\* WasiFs::filestat_inode
filestat_inode(fs, inode, flags) ==
    IF inode \notin ArenaRefs(fs.inodes) THEN Outcome(fs, Panic("index"), {})
    ELSE
      LET inode_val == ArenaGet(fs.inodes, inode)
      IN IF BitAnd(flags, WASI_LOOKUP_SYMLINK_FOLLOW) # 0 /\ inode_val.kind.tag = "Symlink"
           THEN FollowLoop(fs, inode_val.kind.forwarded)
           ELSE Outcome(fs, Ok(inode_val.stat), {})

\* filestat_path that enters a path it does not find into the name cache.
filestat_path_cachesMiss(fs, preopened_fd, flags, path) ==
    LET inode == get_inode(fs, path)
    IN IF inode.tag # "Ok"
         THEN Outcome([fs EXCEPT !.name_map = MapInsert(fs.name_map, path, 0)],
                      Err(WASI_EINVAL), {})
         ELSE filestat_inode(fs, inode.val, flags)

\* WasiFs::filestat_path
filestat_path(fs, preopened_fd, flags, path) ==
    LET inode == get_inode(fs, path)
    IN IF inode.tag # "Ok" THEN Outcome(fs, Err(WASI_EINVAL), {})
       ELSE filestat_inode(fs, inode.val, flags)

\* filestat_fd that answers an id missing from the table with a default stat.
filestat_fd_defaultStat(fs, fd) ==
    IF fd \notin DOMAIN fs.fd_map THEN Outcome(fs, Ok(DefaultStat), {})
    ELSE LET d == fs.fd_map[fd]
         IN IF d.inode \notin ArenaRefs(fs.inodes) THEN Outcome(fs, Panic("index"), {})
            ELSE Outcome(fs, Ok(ArenaGet(fs.inodes, d.inode).stat), {})

\* WasiFs::filestat_fd
filestat_fd(fs, fd) ==
    IF fd \notin DOMAIN fs.fd_map THEN Outcome(fs, Err(WASI_EBADF), {})
    ELSE LET d == fs.fd_map[fd]
         IN IF d.inode \notin ArenaRefs(fs.inodes) THEN Outcome(fs, Panic("index"), {})
            ELSE Outcome(fs, Ok(ArenaGet(fs.inodes, d.inode).stat), {})

\* The match without its Symlink arm.
FileTypeOf_noSymlinkArm(kind) ==
    CASE kind.tag = "File" -> WASI_FILETYPE_REGULAR_FILE
      [] kind.tag = "Dir" -> WASI_FILETYPE_DIRECTORY
      [] OTHER -> WASI_FILETYPE_UNKNOWN

\* The match of fdstat on the inode's kind.
FileTypeOf(kind) ==
    CASE kind.tag = "File" -> WASI_FILETYPE_REGULAR_FILE
      [] kind.tag = "Dir" -> WASI_FILETYPE_DIRECTORY
      [] kind.tag = "Symlink" -> WASI_FILETYPE_SYMBOLIC_LINK
      [] OTHER -> WASI_FILETYPE_UNKNOWN

\* WasiFs::fdstat
fdstat(fs, fd) ==
    IF fd \notin DOMAIN fs.fd_map THEN Outcome(fs, Err(WASI_EBADF), {})
    ELSE LET d == fs.fd_map[fd]
         IN IF d.inode \notin ArenaRefs(fs.inodes) THEN Outcome(fs, Panic("index"), {})
            ELSE Outcome(fs,
                         Ok([fs_filetype |-> FileTypeOf(ArenaGet(fs.inodes, d.inode).kind),
                             fs_flags |-> d.flags,
                             fs_rights_base |-> d.rights,
                             fs_rights_inheriting |-> d.rights]),
                         {})

\* prestat_fd without the test of is_preopened.
prestat_fd_unchecked(fs, fd) ==
    IF fd \notin DOMAIN fs.fd_map THEN Outcome(fs, Err(WASI_EBADF), {})
    ELSE LET d == fs.fd_map[fd]
         IN IF d.inode \notin ArenaRefs(fs.inodes) THEN Outcome(fs, Panic("index"), {})
            ELSE Outcome(fs,
                         Ok([pr_type |-> WASI_PREOPENTYPE_DIR,
                             pr_name_len |-> Len(ArenaGet(fs.inodes, d.inode).name)]),
                         {})

\* WasiFs::prestat_fd
prestat_fd(fs, fd) ==
    IF fd \notin DOMAIN fs.fd_map THEN Outcome(fs, Err(WASI_EBADF), {})
    ELSE LET d == fs.fd_map[fd]
         IN IF d.inode \notin ArenaRefs(fs.inodes) THEN Outcome(fs, Panic("index"), {})
            ELSE LET inode_val == ArenaGet(fs.inodes, d.inode)
                 IN IF inode_val.is_preopened
                      THEN Outcome(fs,
                                   Ok([pr_type |-> WASI_PREOPENTYPE_DIR,
                                       pr_name_len |-> Len(inode_val.name)]),
                                   {})
                      ELSE Outcome(fs, Err(WASI_EBADF), {})

\* flush whose Dir arm falls through to Ok(()) like the Buffer arm.
flush_dirFallsThrough(fs, fd, io_ok) ==
    CASE fd = 0 -> Outcome(fs, Ok("unit"), {})
      [] fd = 1 -> Outcome(fs, IF io_ok THEN Ok("unit") ELSE Err(WASI_EIO), {<<"stdout">>})
      [] fd = 2 -> Outcome(fs, IF io_ok THEN Ok("unit") ELSE Err(WASI_EIO), {<<"stderr">>})
      [] OTHER ->
         IF fd \notin DOMAIN fs.fd_map THEN Outcome(fs, Err(WASI_EBADF), {})
         ELSE
           LET d == fs.fd_map[fd]
           IN IF LacksRight(d.rights, WASI_RIGHT_FD_DATASYNC)
                THEN Outcome(fs, Err(WASI_EACCES), {})
              ELSE IF d.inode \notin ArenaRefs(fs.inodes)
                THEN Outcome(fs, Panic("index"), {})
              ELSE
                LET kind == ArenaGet(fs.inodes, d.inode).kind
                IN CASE kind.tag = "File" ->
                          Outcome(fs, IF io_ok THEN Ok("unit") ELSE Err(WASI_EIO),
                                  {<<"handle", d.inode>>})
                     [] kind.tag = "Symlink" -> Outcome(fs, Panic("unimplemented"), {})
                     [] OTHER -> Outcome(fs, Ok("unit"), {})

\* WasiFs::flush; io_ok is whether the host's flush of the stream succeeds.
flush(fs, fd, io_ok) ==
    CASE fd = 0 -> Outcome(fs, Ok("unit"), {})
      [] fd = 1 -> Outcome(fs, IF io_ok THEN Ok("unit") ELSE Err(WASI_EIO), {<<"stdout">>})
      [] fd = 2 -> Outcome(fs, IF io_ok THEN Ok("unit") ELSE Err(WASI_EIO), {<<"stderr">>})
      [] OTHER ->
         IF fd \notin DOMAIN fs.fd_map THEN Outcome(fs, Err(WASI_EBADF), {})
         ELSE
           LET d == fs.fd_map[fd]
           IN IF LacksRight(d.rights, WASI_RIGHT_FD_DATASYNC)
                THEN Outcome(fs, Err(WASI_EACCES), {})
              ELSE IF d.inode \notin ArenaRefs(fs.inodes)
                THEN Outcome(fs, Panic("index"), {})
              ELSE
                LET kind == ArenaGet(fs.inodes, d.inode).kind
                IN CASE kind.tag = "File" ->
                          Outcome(fs, IF io_ok THEN Ok("unit") ELSE Err(WASI_EIO),
                                  {<<"handle", d.inode>>})
                     [] kind.tag = "Dir" -> Outcome(fs, Err(WASI_EISDIR), {})
                     [] kind.tag = "Symlink" -> Outcome(fs, Panic("unimplemented"), {})
                     [] OTHER -> Outcome(fs, Ok("unit"), {})

\* ----------------------------------------------------------------- memory
\* The WebAssembly page size and the most pages a memory can have (4 GiB).
WASM_PAGE_SIZE == 65536
WASM_MAX_PAGES == 65536

\* A usize of the 64-bit host in limbs: the value hi * LimbBase + lo.
LimbBase == 65536
Usize(hi, lo) == [hi |-> hi, lo |-> lo]

\* Pages::bytes: pages * WASM_PAGE_SIZE as a usize.
PagesBytes(pages) ==
    Usize(pages * (WASM_PAGE_SIZE \div LimbBase), (pages * (WASM_PAGE_SIZE % LimbBase)) % LimbBase)

\* x / d on usize (long division over the limbs), for 0 < d < LimbBase.
UsizeDiv(x, d) ==
    Usize(x.hi \div d, ((x.hi % d) * LimbBase + x.lo) \div d)

\* `x as u32`: the low 32 bits of the usize.
AsU32(x) == Usize(x.hi % LimbBase, x.lo)

\* The Memory of a MemoryType(minimum, Some(maximum)) right after Memory::new.
NewMemory(minimum, maximum) == [pages |-> minimum, maximum |-> maximum]

\* Memory::size
size(mem) == mem.pages

\* Memory::grow: the previous size, or an error when the memory cannot grow
\* by delta pages.
grow(mem, delta) ==
    IF mem.pages + delta > mem.maximum \/ mem.pages + delta > WASM_MAX_PAGES
      THEN [mem |-> mem, res |-> Err("CouldNotGrow")]
      ELSE [mem |-> [mem EXCEPT !.pages = mem.pages + delta], res |-> Ok(mem.pages)]

\* Memory::view::<T>(), size_of_T being std::mem::size_of::<T>(): the length
\* handed to MemoryView::new.
view(mem, size_of_T) ==
    LET length == UsizeDiv(PagesBytes(size(mem)), size_of_T)
    IN [length |-> AsU32(length)]

\* ------------------------------------------------------------------ state
VARIABLES
    status,     \* "none" before WasiFs::new, then "ok", "err" or "panic"
    wasi_fs,    \* the WasiFs instance: name_map, inodes, fd_map, next_fd, inode_counter
    ret,        \* the last call: [op, args, res, counter]
    io,         \* the host I/O the last call performed
    allocated,  \* the ids create_fd has returned to the caller, in call order
    preopened,  \* the preopen list WasiFs::new was given
    memory      \* the Memory instance: its size in pages and its maximum

vars == <<status, wasi_fs, ret, io, allocated, preopened, memory>>

Call(op, args, out) == [op |-> op, args |-> args, res |-> out.res, counter |-> out.counter]

Init ==
    /\ status = "none"
    /\ wasi_fs = EmptyFs
    /\ ret = [op |-> "none", args |-> <<>>, res |-> Ok("unit"), counter |-> 0]
    /\ io = {}
    /\ allocated = <<>>
    /\ preopened = <<>>
    /\ memory = NewMemory(0, 0)

\* ----------------------------------------------------------------- inputs
\* Preopen lists: every sequence of at most MaxPreopens host paths.
PreopenLists == UNION {[1 .. n -> HostPaths] : n \in 0 .. MaxPreopens}

\* Rights masks given to create_fd: all 29 defined bits, and the reserved
\* bit 29 alone (no datasync).
RightsInputs == {default_rights, default_rights + 1}
InheritingInputs == {0, default_rights}
\* Descriptor flags given to create_fd: APPEND with the reserved bit 5
\* (new itself gives 0).
FlagsInputs == {33}
\* Lookup flags: none, SYMLINK_FOLLOW, and another bit without it.
LookupInputs == {0, WASI_LOOKUP_SYMLINK_FOLLOW, 2}
\* Descriptor ids a guest passes: the reserved ones, every id issued so
\* far, and the first id never issued.
FdInputs(fs) == 0 .. fs.next_fd

\* Guest paths of the name cache: "/l", which the embedder may enter, and
\* "/n", which nothing enters.
PathLink == <<47, 108>>
PathAbsent == <<47, 110>>
NameInputs == {PathLink, PathAbsent}
\* preopened_fd arguments of filestat_path: a reserved id and the first
\* allocatable one.
PathFdInputs == {0, 3}

\* The stat block a caller gives the record it inserts at slot n.
StatOf(n) == [st_ino |-> n + 1, st_size |-> 0]

\* Inode records a caller inserts through the public arena (Spec).
EnvInodes(fs) ==
    LET n == Len(fs.inodes)
    IN {InodeVal(StatOf(n), FALSE, <<102>>, KindFile),
        InodeVal(StatOf(n), TRUE, <<195, 169>>, KindFile),
        InodeVal(StatOf(n), FALSE, <<100>>, KindDir),
        InodeVal(StatOf(n), FALSE, <<98>>, KindBuffer)}
       \cup {InodeVal(StatOf(n), FALSE, <<108>>, KindSymlink(r)) : r \in {0, n}}

\* Inode records of a symlink chain (SpecLink): the first is the end of the
\* chain (or a link to itself), each later one links to the one before.
LinkInodes(fs) ==
    LET n == Len(fs.inodes)
    IN IF n = 0
         THEN {InodeVal(StatOf(n), FALSE, <<102>>, KindFile),
               InodeVal(StatOf(n), FALSE, <<100>>, KindDir),
               InodeVal(StatOf(n), FALSE, <<98>>, KindBuffer),
               InodeVal(StatOf(n), FALSE, <<108>>, KindSymlink(0))}
         ELSE {InodeVal(StatOf(n), FALSE, <<108>>, KindSymlink(n - 1))}

\* ---------------------------------------------------------------- actions
\* A call on the instance: its outcome becomes the state; a panic ends the
\* instance's life.
Apply(op, args, out) ==
    /\ wasi_fs' = out.fs
    /\ ret' = Call(op, args, out)
    /\ io' = out.io
    /\ status' = IF out.res.tag = "Panic" THEN "panic" ELSE status
    /\ UNCHANGED memory

\* WasiFs::new(preopened_files)
New(preopened_files, repo_ok) ==
    /\ status = "none"
    /\ LET out == new(preopened_files, repo_ok)
       IN /\ wasi_fs' = out.fs
          /\ ret' = Call("new", <<preopened_files, repo_ok>>, out)
          /\ io' = out.io
          /\ status' = CASE out.res.tag = "Ok" -> "ok"
                         [] out.res.tag = "Err" -> "err"
                         [] OTHER -> "panic"
    /\ preopened' = preopened_files
    /\ UNCHANGED <<allocated, memory>>

\* The embedder inserts a record into the public arena (wasi_fs.inodes.insert).
InsertInode(val) ==
    /\ status = "ok"
    /\ Apply("insert", <<>>,
             Outcome([wasi_fs EXCEPT !.inodes = ArenaInsert(wasi_fs.inodes, val)],
                     Ok(Len(wasi_fs.inodes)), {}))
    /\ UNCHANGED <<allocated, preopened>>

\* The embedder turns the first record of the arena into a symlink to the
\* newest one (wasi_fs.inodes[first].kind = Kind::Symlink { .. }).
Relink ==
    /\ status = "ok"
    /\ Len(wasi_fs.inodes) >= 2
    /\ wasi_fs.inodes[1].kind.tag # "Symlink"
    /\ Apply("relink", <<>>,
             Outcome([wasi_fs EXCEPT !.inodes[1].kind =
                         KindSymlink(Len(wasi_fs.inodes) - 1)],
                     Ok("unit"), {}))
    /\ UNCHANGED <<allocated, preopened>>

\* The embedder enters a path into the public name cache
\* (wasi_fs.name_map.insert(path, inode)).
InsertName(path, inode) ==
    /\ status = "ok"
    /\ Apply("name", <<path, inode>>,
             Outcome([wasi_fs EXCEPT !.name_map = MapInsert(wasi_fs.name_map, path, inode)],
                     Ok("unit"), {}))
    /\ UNCHANGED <<allocated, preopened>>

CreateFd(rights, rights_inheriting, flags, inode) ==
    /\ status = "ok"
    /\ LET out == create_fd(wasi_fs, rights, rights_inheriting, flags, inode)
       IN /\ Apply("create_fd", <<rights, rights_inheriting, flags, inode>>, out)
          /\ allocated' = Append(allocated, out.res.val)
          /\ UNCHANGED preopened

\* create_fd in either build. Only the call made at next_fd = u32::MAX
\* depends on the build, and a panic ends the run, so every behaviour is one
\* of a single build.
CreateFdBuild(rights, rights_inheriting, flags, inode, overflow_checks) ==
    /\ status = "ok"
    /\ LET out == create_fd_build(wasi_fs, rights, rights_inheriting, flags, inode,
                                  overflow_checks)
       IN /\ Apply("create_fd", <<rights, rights_inheriting, flags, inode>>, out)
          /\ allocated' = IF out.res.tag = "Ok" THEN Append(allocated, out.res.val)
                          ELSE allocated
          /\ UNCHANGED preopened

FilestatInode(inode, flags) ==
    /\ status = "ok"
    /\ Apply("filestat_inode", <<inode, flags>>, filestat_inode(wasi_fs, inode, flags))
    /\ UNCHANGED <<allocated, preopened>>

FilestatPath(preopened_fd, flags, path) ==
    /\ status = "ok"
    /\ Apply("filestat_path", <<preopened_fd, flags, path>>,
             filestat_path(wasi_fs, preopened_fd, flags, path))
    /\ UNCHANGED <<allocated, preopened>>

FilestatFd(fd) ==
    /\ status = "ok"
    /\ Apply("filestat_fd", <<fd>>, filestat_fd(wasi_fs, fd))
    /\ UNCHANGED <<allocated, preopened>>

Fdstat(fd) ==
    /\ status = "ok"
    /\ Apply("fdstat", <<fd>>, fdstat(wasi_fs, fd))
    /\ UNCHANGED <<allocated, preopened>>

PrestatFd(fd) ==
    /\ status = "ok"
    /\ Apply("prestat_fd", <<fd>>, prestat_fd(wasi_fs, fd))
    /\ UNCHANGED <<allocated, preopened>>

Flush(fd, io_ok) ==
    /\ status = "ok"
    /\ Apply("flush", <<fd>>, flush(wasi_fs, fd, io_ok))
    /\ UNCHANGED <<allocated, preopened>>

\* Memory::grow(delta)
Grow(delta) ==
    /\ memory' = grow(memory, delta).mem
    /\ ret' = [op |-> "grow", args |-> <<delta>>, res |-> grow(memory, delta).res,
               counter |-> 0]
    /\ UNCHANGED <<status, wasi_fs, io, allocated, preopened>>

\* Memory::view::<T>()
View(size_of_T) ==
    /\ ret' = [op |-> "view", args |-> <<size_of_T>>, res |-> Ok(view(memory, size_of_T)),
               counter |-> 0]
    /\ UNCHANGED <<status, wasi_fs, io, allocated, preopened, memory>>

\* --------------------------------------------------------- specifications
\* The facade: construction, then any sequence of calls.
Next ==
    \/ \E files \in PreopenLists, repo_ok \in BOOLEAN : New(files, repo_ok)
    \/ /\ Len(wasi_fs.inodes) - Len(preopened) < MaxInodes
       /\ \E val \in EnvInodes(wasi_fs) : InsertInode(val)
    \/ /\ Len(allocated) < MaxFds
       /\ \E rights \in RightsInputs, rights_inheriting \in InheritingInputs,
             flags \in FlagsInputs, inode \in ArenaRefs(wasi_fs.inodes) :
             CreateFd(rights, rights_inheriting, flags, inode)
    \/ \E flags \in LookupInputs : FilestatPath(3, flags, PathAbsent)
    \/ \E fd \in FdInputs(wasi_fs) : FilestatFd(fd)
    \/ \E fd \in FdInputs(wasi_fs) : Fdstat(fd)
    \/ \E fd \in FdInputs(wasi_fs) : PrestatFd(fd)
    \/ \E fd \in FdInputs(wasi_fs), io_ok \in BOOLEAN : Flush(fd, io_ok)

Spec == Init /\ [][Next]_vars

\* Symlink chains: an instance built from no preopens, whose arena the
\* embedder fills with a chain and may name in the name cache, and
\* filestat_inode and filestat_path on it.
InitLink ==
    /\ status = "ok"
    /\ wasi_fs = new(<<>>, TRUE).fs
    /\ ret = Call("new", <<<<>>, TRUE>>, new(<<>>, TRUE))
    /\ io = {}
    /\ allocated = <<>>
    /\ preopened = <<>>
    /\ memory = NewMemory(0, 0)

\* Where a lookup starts: the first and the newest record.
LinkStarts(fs) == {0, Len(fs.inodes) - 1} \cap ArenaRefs(fs.inodes)

\* The embedder has closed the chain into a cycle (Relink), which it does last.
ChainClosed(fs) ==
    /\ Len(fs.inodes) >= 2
    /\ fs.inodes[1].kind.tag = "Symlink"

\* The embedder has named a record of the chain, after which it adds none.
ChainNamed(fs) == DOMAIN fs.name_map # {}

NextLink ==
    \/ /\ Len(wasi_fs.inodes) < MaxLinkInodes
       /\ ~ChainClosed(wasi_fs)
       /\ ~ChainNamed(wasi_fs)
       /\ \E val \in LinkInodes(wasi_fs) : InsertInode(val)
    \/ Relink
    \/ /\ ~ChainNamed(wasi_fs)
       /\ \E inode \in LinkStarts(wasi_fs) : InsertName(PathLink, inode)
    \/ \E preopened_fd \in PathFdInputs, flags \in LookupInputs, path \in NameInputs :
          FilestatPath(preopened_fd, flags, path)
    \/ \E inode \in LinkStarts(wasi_fs), flags \in LookupInputs :
          FilestatInode(inode, flags)

SpecLink == InitLink /\ [][NextLink]_vars

\* The wrap of next_fd: an instance with one preopen whose public next_fd
\* cell holds u32::MAX or a value just below it, then create_fd calls and
\* fdstat of the ids around the wrap.
InitWrap ==
    /\ status = "ok"
    /\ \E lead \in 0 .. MaxWrapLead :
          wasi_fs = [new(<<PathData>>, TRUE).fs EXCEPT !.next_fd = U32_MAX - lead]
    /\ ret = Call("new", <<<<PathData>>, TRUE>>, new(<<PathData>>, TRUE))
    /\ io = {}
    /\ allocated = <<>>
    /\ preopened = <<PathData>>
    /\ memory = NewMemory(0, 0)

\* Ids asked about around the wrap.
WrapFdInputs == {U32_MAX, 0, 3}

NextWrap ==
    \/ /\ Len(allocated) < MaxWrapFds
       /\ \E rights \in RightsInputs, rights_inheriting \in InheritingInputs,
             flags \in FlagsInputs, inode \in ArenaRefs(wasi_fs.inodes),
             overflow_checks \in BOOLEAN :
             CreateFdBuild(rights, rights_inheriting, flags, inode, overflow_checks)
    \/ \E fd \in WrapFdInputs : Fdstat(fd)

SpecWrap == InitWrap /\ [][NextWrap]_vars

\* Memory views: memories of few pages and memories within MaxGrowPages of
\* the 65536-page maximum, grown page by page and viewed at every element size.
ViewMinimums == {0, WASM_MAX_PAGES - MaxGrowPages}
\* size_of::<T>() of the ValueType implementations: u8, u16, u32 and f32,
\* u64 and f64.
ViewSizes == {1, 2, 4, 8}
GrowInputs == {0, 1, 3}

InitView ==
    /\ status = "none"
    /\ wasi_fs = EmptyFs
    /\ ret = [op |-> "none", args |-> <<>>, res |-> Ok("unit"), counter |-> 0]
    /\ io = {}
    /\ allocated = <<>>
    /\ preopened = <<>>
    /\ \E minimum \in ViewMinimums :
          memory = NewMemory(minimum, minimum + MaxGrowPages)

NextView ==
    \/ \E delta \in GrowInputs : Grow(delta)
    \/ \E size_of_T \in ViewSizes : View(size_of_T)

SpecView == InitView /\ [][NextView]_vars

\* ----------------------------------------------------------------- claims
\* What the claims speak of, stated without the operations above.
HasDatasync(rights) == (rights \div WASI_RIGHT_FD_DATASYNC) % 2 = 1
FollowsSymlinks(flags) == (flags \div WASI_LOOKUP_SYMLINK_FOLLOW) % 2 = 1
InTable(fs, fd) == fd \in DOMAIN fs.fd_map
KindOfFd(fs, fd) == fs.inodes[fs.fd_map[fd].inode + 1].kind.tag

\* C1: flush of a descriptor in the table whose rights lack the datasync bit
\* returns EACCES whatever the Kind of its inode, performs no I/O on the host
\* and leaves the instance (descriptor table, arena, counters) unchanged.
C1_FlushWithoutDatasyncDenied ==
    [][(/\ ret'.op = "flush"
        /\ InTable(wasi_fs, ret'.args[1])
        /\ ~HasDatasync(wasi_fs.fd_map[ret'.args[1]].rights))
       => (/\ ret'.res = Err(WASI_EACCES)
           /\ io' = {}
           /\ wasi_fs' = wasi_fs
           /\ status' = "ok")]_vars

\* C1 witness: flush was denied on a descriptor over a File inode.
C1_Witness ==
    /\ ret.op = "flush"
    /\ ret.res = Err(WASI_EACCES)
    /\ InTable(wasi_fs, ret.args[1])
    /\ KindOfFd(wasi_fs, ret.args[1]) = "File"
    /\ ~HasDatasync(wasi_fs.fd_map[ret.args[1]].rights)

WalkStep(arena, w) ==
    IF w.ends \/ w.at \notin ArenaRefs(arena) THEN w
    ELSE IF arena[w.at + 1].kind.tag = "Symlink"
      THEN [w EXCEPT !.at = arena[w.at + 1].kind.forwarded, !.len = w.len + 1]
      ELSE [w EXCEPT !.ends = TRUE]

RECURSIVE WalkSteps(_, _, _)
WalkSteps(arena, w, n) ==
    IF n = 0 THEN w
    ELSE IF n = 1 THEN WalkStep(arena, w)
    ELSE LET half == WalkSteps(arena, w, n \div 2)
         IN IF half.ends THEN half ELSE WalkSteps(arena, half, n - (n \div 2))

\* ends: the chain reaches a record that is no symlink (a chain that does
\* visits each record at most once); len: the symlinks on the way, the
\* start included; at: the record it ends in.
ChainWalk(arena, start) ==
    WalkSteps(arena, [at |-> start, len |-> 0, ends |-> FALSE], Len(arena) + 1)

\* The last call was filestat_inode with the follow flag set, started at a
\* symlink of the arena.
FollowedSymlink ==
    /\ ret.op = "filestat_inode"
    /\ FollowsSymlinks(ret.args[2])
    /\ ret.args[1] \in ArenaRefs(wasi_fs.inodes)
    /\ wasi_fs.inodes[ret.args[1] + 1].kind.tag = "Symlink"

\* C3: resolution with the follow flag set, started at a symlink whose chain
\* has at most MAX_SYMLINKS symlinks and ends in a non-symlink inode,
\* succeeds with the stat of that inode.
C3_ShortChainResolves ==
    FollowedSymlink =>
      LET w == ChainWalk(wasi_fs.inodes, ret.args[1])
      IN (w.ends /\ w.len <= MAX_SYMLINKS)
           => ret.res = Ok(wasi_fs.inodes[w.at + 1].stat)

\* C3 witness: a chain of exactly MAX_SYMLINKS symlinks was resolved.
C3_Witness ==
    /\ FollowedSymlink
    /\ ChainWalk(wasi_fs.inodes, ret.args[1]).ends
    /\ ChainWalk(wasi_fs.inodes, ret.args[1]).len = MAX_SYMLINKS
    /\ ret.res.tag = "Ok"

\* C4 as stated: resolution with the follow flag set over an acyclic chain of
\* more than MAX_SYMLINKS symlinks (101 symlinks ending in a non-symlink
\* inode, in particular) fails with EMLINK.
C4_LongChainFails ==
    FollowedSymlink =>
      LET w == ChainWalk(wasi_fs.inodes, ret.args[1])
      IN (w.ends /\ w.len > MAX_SYMLINKS) => ret.res = Err(WASI_EMLINK)

\* C5: when the chain from the start inode never reaches a non-symlink
\* inode (a cycle of any length), resolution with the follow flag set
\* returns EMLINK, without a panic, with the hop counter at MAX_SYMLINKS + 1.
C5_CycleFailsAfterBound ==
    FollowedSymlink =>
      (~ChainWalk(wasi_fs.inodes, ret.args[1]).ends
         => (ret.res = Err(WASI_EMLINK) /\ ret.counter = MAX_SYMLINKS + 1))

\* C5 witness: the inode that links to itself was resolved.
C5_Witness ==
    /\ FollowedSymlink
    /\ wasi_fs.inodes[ret.args[1] + 1].kind.forwarded = ret.args[1]
    /\ ret.res = Err(WASI_EMLINK)

\* C6: create_fd is injective and monotonic: every call returns an id
\* greater than every id returned before, and on an instance built from no
\* preopens the N calls made so far returned 3 .. N+2, also when several of
\* them were given the same inode.
C6_CreateFdMonotonic ==
    /\ \A i, j \in 1 .. Len(allocated) : i < j => allocated[i] < allocated[j]
    /\ (status = "ok" /\ preopened = <<>>)
         => \A i \in 1 .. Len(allocated) : allocated[i] = i + 2

\* C6 witness: two calls on an instance without preopens, both given the
\* same inode.
C6_Witness ==
    /\ status = "ok"
    /\ preopened = <<>>
    /\ Len(allocated) = 2
    /\ allocated[1] # allocated[2]
    /\ InTable(wasi_fs, allocated[1])
    /\ InTable(wasi_fs, allocated[2])
    /\ wasi_fs.fd_map[allocated[1]].inode = wasi_fs.fd_map[allocated[2]].inode

\* C7 as stated: fdstat of a descriptor in the table returns the flags, the
\* rights and the inheriting rights the descriptor was allocated with.
C7_FdstatReturnsAllocated ==
    (ret.op = "fdstat" /\ InTable(wasi_fs, ret.args[1]))
    => (/\ ret.res.tag = "Ok"
        /\ ret.res.val.fs_flags = wasi_fs.fd_map[ret.args[1]].flags
        /\ ret.res.val.fs_rights_base = wasi_fs.fd_map[ret.args[1]].rights
        /\ ret.res.val.fs_rights_inheriting =
             wasi_fs.fd_map[ret.args[1]].rights_inheriting)

\* C8: the file type fdstat returns for a descriptor in the table is given
\* by the Kind of its inode: File regular file, Dir directory, Symlink
\* symbolic link, Buffer unknown.
C8_FdstatFileType ==
    (ret.op = "fdstat" /\ InTable(wasi_fs, ret.args[1]))
    => (/\ ret.res.tag = "Ok"
        /\ LET kind == KindOfFd(wasi_fs, ret.args[1])
               type == ret.res.val.fs_filetype
           IN /\ kind = "File" => type = WASI_FILETYPE_REGULAR_FILE
              /\ kind = "Dir" => type = WASI_FILETYPE_DIRECTORY
              /\ kind = "Symlink" => type = WASI_FILETYPE_SYMBOLIC_LINK
              /\ kind = "Buffer" => type = WASI_FILETYPE_UNKNOWN
              /\ kind \in {"File", "Dir", "Symlink", "Buffer"})

\* C8 witness: fdstat of a descriptor over a Symlink inode, made while the
\* table also holds a descriptor of another Kind.
C8_Witness ==
    /\ ret.op = "fdstat"
    /\ InTable(wasi_fs, ret.args[1])
    /\ KindOfFd(wasi_fs, ret.args[1]) = "Symlink"
    /\ ret.res.tag = "Ok"
    /\ \E fd \in DOMAIN wasi_fs.fd_map : KindOfFd(wasi_fs, fd) = "Dir"

\* C9: prestat_fd succeeds exactly for an id in the table whose inode has
\* is_preopened set; it then returns the preopen type directory and the
\* byte length of the inode's name, and otherwise bad-descriptor.
C9_PrestatOnlyPreopened ==
    ret.op = "prestat_fd" =>
      LET fd == ret.args[1]
          marked == /\ InTable(wasi_fs, fd)
                    /\ wasi_fs.inodes[wasi_fs.fd_map[fd].inode + 1].is_preopened
      IN /\ ret.res.tag = "Ok" <=> marked
         /\ marked => ret.res.val =
                        [pr_type |-> WASI_PREOPENTYPE_DIR,
                         pr_name_len |->
                           Len(wasi_fs.inodes[wasi_fs.fd_map[fd].inode + 1].name)]
         /\ ~marked => ret.res = Err(WASI_EBADF)

\* C9 witness: prestat_fd refused a descriptor in the table whose inode is
\* not preopened, while the table holds a preopened one too.
C9_Witness ==
    /\ ret.op = "prestat_fd"
    /\ InTable(wasi_fs, ret.args[1])
    /\ ~wasi_fs.inodes[wasi_fs.fd_map[ret.args[1]].inode + 1].is_preopened
    /\ ret.res = Err(WASI_EBADF)
    /\ \E fd \in DOMAIN wasi_fs.fd_map :
          wasi_fs.inodes[wasi_fs.fd_map[fd].inode + 1].is_preopened

FirstNonDir(files) ==
    IF \A i \in 1 .. Len(files) : HostKind(files[i]) = "dir" THEN 0
    ELSE CHOOSE k \in 1 .. Len(files) :
           /\ HostKind(files[k]) # "dir"
           /\ \A j \in 1 .. (k - 1) : HostKind(files[j]) = "dir"

\* C11: when the first path of the preopen list that is no directory is a
\* regular file, whatever its position and however many directories come
\* before it, WasiFs::new returns an error that names that path and no
\* instance; the paths after it are not looked at (a missing path after it
\* does not change the outcome).
C11_NonDirectoryFails ==
    (/\ ret.op = "new"
     /\ ret.args[2]
     /\ FirstNonDir(ret.args[1]) # 0
     /\ HostKind(ret.args[1][FirstNonDir(ret.args[1])]) = "file")
    => (/\ ret.res.tag = "Err"
        /\ ret.res.err[2] = ret.args[1][FirstNonDir(ret.args[1])]
        /\ status = "err"
        /\ wasi_fs = EmptyFs)

\* C11 witness: new was given a directory and then a regular file, and
\* returned an error.
C11_Witness ==
    /\ ret.op = "new"
    /\ ret.args[1] = <<PathData, PathFile>>
    /\ ret.res.tag = "Err"
    /\ status = "err"

\* C12 as stated: WasiFs::new reports every failure as an error result and
\* never panics, also for a path that cannot be opened on the host or whose
\* metadata cannot be read.
C12_NewNeverPanics ==
    ret.op = "new" => (ret.res.tag \in {"Ok", "Err"} /\ status # "panic")

\* C13: for an id that is not in the descriptor table (0, 1, 2 and every id
\* never allocated) filestat_fd, fdstat and prestat_fd return bad-descriptor,
\* and so does flush when the id is 3 or more; for an id in the table
\* filestat_fd returns the stat of the descriptor's inode.
C13_UnknownIdBadDescriptor ==
    /\ (/\ ret.op \in {"filestat_fd", "fdstat", "prestat_fd"}
        /\ ~InTable(wasi_fs, ret.args[1]))
       => ret.res = Err(WASI_EBADF)
    /\ (/\ ret.op = "flush"
        /\ ret.args[1] >= 3
        /\ ~InTable(wasi_fs, ret.args[1]))
       => ret.res = Err(WASI_EBADF)
    /\ (ret.op = "filestat_fd" /\ InTable(wasi_fs, ret.args[1]))
       => ret.res = Ok(wasi_fs.inodes[wasi_fs.fd_map[ret.args[1]].inode + 1].stat)

\* C13 witness: filestat_fd was refused for the first id never allocated,
\* on an instance whose table holds a caller's descriptor.
C13_Witness ==
    /\ ret.op = "filestat_fd"
    /\ ret.args[1] = wasi_fs.next_fd
    /\ ~InTable(wasi_fs, ret.args[1])
    /\ ret.res = Err(WASI_EBADF)
    /\ Len(allocated) > 0

\* C14 as stated: filestat_path for a path that is not in the name cache
\* fails with the "no such entry" code, whatever preopened_fd and flags.
C14_AbsentPathNoEntry ==
    (ret.op = "filestat_path" /\ ret.args[3] \notin DOMAIN wasi_fs.name_map)
    => ret.res = Err(WASI_ENOENT)

\* C15: for a descriptor in the table whose rights contain the datasync bit,
\* the Kind of its inode decides what flush does: File flushes the backing
\* handle and returns success or the I/O error, Dir returns is-a-directory
\* without I/O, Buffer returns success without I/O, Symlink panics.
C15_FlushByKind ==
    (/\ ret.op = "flush"
     /\ InTable(wasi_fs, ret.args[1])
     /\ HasDatasync(wasi_fs.fd_map[ret.args[1]].rights))
    => LET kind == KindOfFd(wasi_fs, ret.args[1])
       IN /\ kind = "File" =>
               /\ ret.res \in {Ok("unit"), Err(WASI_EIO)}
               /\ io = {<<"handle", wasi_fs.fd_map[ret.args[1]].inode>>}
               /\ status = "ok"
          /\ kind = "Dir" =>
               (ret.res = Err(WASI_EISDIR) /\ io = {} /\ status = "ok")
          /\ kind = "Buffer" =>
               (ret.res = Ok("unit") /\ io = {} /\ status = "ok")
          /\ kind = "Symlink" =>
               (ret.res.tag = "Panic" /\ io = {} /\ status = "panic")
          /\ kind \in {"File", "Dir", "Buffer", "Symlink"}

\* C15 witness: flush of a descriptor with datasync over a Symlink inode
\* panicked.
C15_Witness ==
    /\ ret.op = "flush"
    /\ InTable(wasi_fs, ret.args[1])
    /\ HasDatasync(wasi_fs.fd_map[ret.args[1]].rights)
    /\ KindOfFd(wasi_fs, ret.args[1]) = "Symlink"
    /\ status = "panic"

\* C16: without the follow bit in the flags, filestat_inode of a symlink
\* returns the stat of the symlink itself and never enters the walk (its hop
\* counter stays 0), also when the symlink lies on a cycle or heads a chain
\* of more than MAX_SYMLINKS links; started at a record that is no symlink
\* it returns that record's stat whatever the flags.
C16_NoFollowReturnsSelf ==
    (/\ ret.op = "filestat_inode"
     /\ ret.args[1] \in ArenaRefs(wasi_fs.inodes)
     /\ \/ ~FollowsSymlinks(ret.args[2])
        \/ wasi_fs.inodes[ret.args[1] + 1].kind.tag # "Symlink")
    => (/\ ret.res = Ok(wasi_fs.inodes[ret.args[1] + 1].stat)
        /\ ret.counter = 0)

\* C16 witness: a symlink on a cycle was resolved without the follow bit.
C16_Witness ==
    /\ ret.op = "filestat_inode"
    /\ ret.args[1] \in ArenaRefs(wasi_fs.inodes)
    /\ ~FollowsSymlinks(ret.args[2])
    /\ wasi_fs.inodes[ret.args[1] + 1].kind.tag = "Symlink"
    /\ ~ChainWalk(wasi_fs.inodes, ret.args[1]).ends
    /\ Len(wasi_fs.inodes) > MAX_SYMLINKS
    /\ ret.res.tag = "Ok"

\* The bits of a that are not bits of b.
BitsOutside(a, b) == a - BitAnd(a, b)

\* The descriptor a descriptor is derived from: the first one that was
\* opened on its inode.
OriginOf(fs, fd) ==
    CHOOSE o \in DOMAIN fs.fd_map :
      /\ fs.fd_map[o].inode = fs.fd_map[fd].inode
      /\ \A k \in DOMAIN fs.fd_map : fs.fd_map[k].inode = fs.fd_map[fd].inode => o <= k

\* C17 as stated: no descriptor in the table holds a rights bit that the
\* descriptor it is derived from (the first one on the same inode) holds
\* neither in its rights nor in its inheriting rights.
C17_NonEscalation ==
    \A fd \in DOMAIN wasi_fs.fd_map :
      LET o == wasi_fs.fd_map[OriginOf(wasi_fs, fd)]
      IN BitsOutside(BitsOutside(wasi_fs.fd_map[fd].rights, o.rights),
                     o.rights_inheriting) = 0

\* C18: create_fd succeeds and returns the former next_fd; the table gains
\* exactly that id, holding the given rights, inheriting rights, flags and
\* inode with offset 0; next_fd advances by one; every other descriptor, the
\* arena, the name cache and inode_counter stay as they were, also when the
\* inode is already referenced by other descriptors.
C18_CreateFdFrame ==
    [][ret'.op = "create_fd" =>
         LET idx == wasi_fs.next_fd
         IN /\ ret'.res = Ok(idx)
            /\ status' = "ok"
            /\ idx \notin DOMAIN wasi_fs.fd_map
            /\ DOMAIN wasi_fs'.fd_map = DOMAIN wasi_fs.fd_map \cup {idx}
            /\ wasi_fs'.fd_map[idx] =
                 Fd(ret'.args[1], ret'.args[2], ret'.args[3], 0, ret'.args[4])
            /\ wasi_fs'.next_fd = wasi_fs.next_fd + 1
            /\ \A k \in DOMAIN wasi_fs.fd_map : wasi_fs'.fd_map[k] = wasi_fs.fd_map[k]
            /\ wasi_fs'.inodes = wasi_fs.inodes
            /\ wasi_fs'.name_map = wasi_fs.name_map
            /\ wasi_fs'.inode_counter = wasi_fs.inode_counter]_vars

\* C18 witness: create_fd has just opened a descriptor on the inode of a
\* preopened descriptor, which is still in the table.
C18_Witness ==
    /\ ret.op = "create_fd"
    /\ ret.res.tag = "Ok"
    /\ InTable(wasi_fs, ret.res.val)
    /\ InTable(wasi_fs, 3)
    /\ ret.res.val # 3
    /\ wasi_fs.fd_map[3].inode = wasi_fs.fd_map[ret.res.val].inode
    /\ wasi_fs.fd_map[3].rights = default_rights
    /\ wasi_fs.fd_map[ret.res.val].rights # default_rights

\* C19: in every reachable state the ids of the descriptor table are exactly
\* 3 .. next_fd - 1: never 0, 1 or 2, none missing below next_fd, none at or
\* above it.
C19_TableIsRange ==
    /\ DOMAIN wasi_fs.fd_map = 3 .. (wasi_fs.next_fd - 1)
    /\ DOMAIN wasi_fs.fd_map \cap {0, 1, 2} = {}

\* C19 witness: two preopens and two descriptors of the caller, ids 3 .. 6.
C19_Witness ==
    /\ status = "ok"
    /\ Len(preopened) = 2
    /\ Len(allocated) = 2
    /\ DOMAIN wasi_fs.fd_map = {3, 4, 5, 6}
    /\ wasi_fs.next_fd = 7

\* C20: filestat_fd, fdstat, prestat_fd and filestat_path, and every flush
\* that returns an error, leave the whole instance as it was (table, next_fd,
\* inode_counter, name cache, arena), and the same query made again in the
\* state they leave returns the same result.
C20_QueriesChangeNothing ==
    [][(\/ ret'.op \in {"filestat_fd", "fdstat", "prestat_fd", "filestat_path"}
        \/ (ret'.op = "flush" /\ ret'.res.tag = "Err"))
       => (/\ wasi_fs' = wasi_fs
           /\ status' = "ok"
           /\ ret'.op = "filestat_fd" =>
                ret'.res = filestat_fd(wasi_fs', ret'.args[1]).res
           /\ ret'.op = "fdstat" =>
                ret'.res = fdstat(wasi_fs', ret'.args[1]).res
           /\ ret'.op = "prestat_fd" =>
                ret'.res = prestat_fd(wasi_fs', ret'.args[1]).res
           /\ ret'.op = "filestat_path" =>
                ret'.res = filestat_path(wasi_fs', ret'.args[1], ret'.args[2],
                                         ret'.args[3]).res
           /\ ret'.op = "flush" =>
                \E io_ok \in BOOLEAN :
                   ret'.res = flush(wasi_fs', ret'.args[1], io_ok).res)]_vars

\* C20 witness: filestat_path missed the name cache, which is still empty,
\* on an instance with descriptors and inodes.
C20_Witness ==
    /\ ret.op = "filestat_path"
    /\ ret.res.tag = "Err"
    /\ DOMAIN wasi_fs.name_map = {}
    /\ wasi_fs.inode_counter = 1000
    /\ Len(allocated) > 0
    /\ Len(wasi_fs.inodes) > 0

\* C21: after construction and any calls in which create_fd is given only
\* references the arena has issued, every descriptor in the table references
\* a record of the arena (nothing removes a record), and filestat_fd, fdstat
\* and prestat_fd never panic on an arena reference.
C21_DescriptorsReferenceLiveInodes ==
    /\ \A fd \in DOMAIN wasi_fs.fd_map :
          wasi_fs.fd_map[fd].inode \in ArenaRefs(wasi_fs.inodes)
    /\ ret.op \in {"filestat_fd", "fdstat", "prestat_fd"} => ret.res.tag # "Panic"

\* C21 witness: filestat_fd succeeded on a caller's descriptor over a record
\* inserted after the preopens, while a preopened descriptor is in the table.
C21_Witness ==
    /\ ret.op = "filestat_fd"
    /\ ret.res.tag = "Ok"
    /\ Len(preopened) > 0
    /\ InTable(wasi_fs, ret.args[1])
    /\ ret.args[1] \in {allocated[i] : i \in 1 .. Len(allocated)}
    /\ wasi_fs.fd_map[ret.args[1]].inode >= Len(preopened)

\* C22 as stated: whatever the number of create_fd calls, the call made at
\* next_fd = u32::MAX and those after it included, create_fd returns no
\* reserved id (0, 1, 2) and no id that is already in the table.
C22_CreateFdNeverReusesId ==
    [][(ret'.op = "create_fd" /\ ret'.res.tag = "Ok")
       => (/\ ret'.res.val \notin {0, 1, 2}
           /\ ret'.res.val \notin DOMAIN wasi_fs.fd_map)]_vars

\* C23 as stated: the length of the view Memory::view::<T>() returns is the
\* memory's size in bytes (pages times 65536) divided by the size of T, for
\* every size up to 65536 pages: narrowing the length to 32 bits does not
\* change it. The quotient is pages / size * 65536 + (pages % size) *
\* (65536 / size), written in limbs of 16 bits.
C23_ViewLengthExact ==
    ret.op = "view" =>
      LET pages == memory.pages
          size_of_T == ret.args[1]
      IN /\ ret.res.val.length.hi = pages \div size_of_T
         /\ ret.res.val.length.lo = (pages % size_of_T) * (65536 \div size_of_T)

====
